---- MODULE Spec2Model ----
(***************************************************************************)
(* Model of scripts/generate.js: the loader (mergeData), the shape         *)
(* validator (validateItemFormat), the uniqueness validator                *)
(* (checkForDuplicateNumber) and the orchestrating async function.         *)
(***************************************************************************)
EXTENDS Integers, Sequences, FiniteSets, TLC

VARIABLES
    files,       \* texts of the files of ../lists, in the order readdir yields them
    readdir,     \* the fs.readdir request: "idle", "pending", "done", "failed"
    promise,     \* the promise mergeData returns: "none", "pending", "resolved"
    mergedData,  \* the merged array
    pc,          \* position of the orchestrating async function
    validation,  \* result of validateItemFormat (line 112), NoResult before
    check,       \* result of checkForDuplicateNumber (line 120), NoResult before
    outFile,     \* text of ../list.json
    console      \* what was printed, in order

vars == <<files, readdir, promise, mergedData, pc, validation, check, outFile, console>>

(***************************************************************************)
(* Bounds of the model.                                                    *)
(***************************************************************************)
MaxFiles == 2
MaxFileLen == 2
MaxShapeLen == 2
MaxDupLen == 5

SeqsUpTo(S, n) == UNION {[1..k -> S] : k \in 0..n}

(***************************************************************************)
(* JSON values.  t is the kind of the value, v its text: S("audio") is the *)
(* string "audio", Num("7") the number 7, Arr("audio") the array           *)
(* ["audio"], Undefined what reading an absent property yields.            *)
(***************************************************************************)
S(s) == [t |-> "string", v |-> s]
Num(s) == [t |-> "number", v |-> s]
Arr(s) == [t |-> "array", v |-> s]
Undefined == [t |-> "undefined", v |-> ""]

\* typeof
TypeOf(val) == IF val.t = "array" THEN "object" ELSE val.t

\* val == s for a string literal s (abstract equality: an array and a number
\* are converted, ["audio"] to "audio" and 7 to "7"; undefined equals no string)
LooseEq(val, s) == val.t \in {"string", "array", "number"} /\ val.v = s

Keys == <<"number", "name", "code", "type", "category", "playlist", "audio">>

\* An element of a parsed array: an object (json = "object") with the
\* properties that are not Undefined, or null.
Item(number, name, code, type, category, playlist, audio) ==
    [json |-> "object", number |-> number, name |-> name, code |-> code,
     type |-> type, category |-> category, playlist |-> playlist, audio |-> audio]
NullItem ==
    [json |-> "null", number |-> Undefined, name |-> Undefined, code |-> Undefined,
     type |-> Undefined, category |-> Undefined, playlist |-> Undefined,
     audio |-> Undefined]

Video(n) == Item(S(n), S("n"), S("c"), S("video"), S("x"), S("p"), Undefined)
Audio(n) == Item(S(n), S("n"), S("c"), S("audio"), Undefined, Undefined, S("a"))

(***************************************************************************)
(* JSON texts.  A text is well formed or not; a well-formed text of an     *)
(* array lists its elements, each null or the members of an object.        *)
(***************************************************************************)
MalformedText == [wellFormed |-> FALSE, body |-> <<>>]

StringifyItem(item) ==
    IF item.json = "null"
    THEN [null |-> TRUE, members |-> <<>>]
    ELSE LET own == SelectSeq(Keys, LAMBDA k : item[k] # Undefined)
         IN  [null |-> FALSE,
              members |-> [i \in 1..Len(own) |-> [key |-> own[i], value |-> item[own[i]]]]]

JSONstringify(data) ==
    [wellFormed |-> TRUE, body |-> [i \in 1..Len(data) |-> StringifyItem(data[i])]]

Member(e, k) ==
    LET hit == {i \in 1..Len(e.members) : e.members[i].key = k}
    IN  IF hit = {} THEN Undefined ELSE e.members[CHOOSE i \in hit : TRUE].value

ParseItem(e) ==
    IF e.null THEN NullItem
    ELSE Item(Member(e, "number"), Member(e, "name"), Member(e, "code"),
              Member(e, "type"), Member(e, "category"), Member(e, "playlist"),
              Member(e, "audio"))

\* JSON.parse throws on a text that is not well formed
ParseThrows(text) == ~text.wellFormed
JSONparse(text) == [i \in 1..Len(text.body) |-> ParseItem(text.body[i])]

(***************************************************************************)
(* mergeData: the forEach of the readdir callback.                         *)
(***************************************************************************)
\* faulty variants of MergeStep: the catch block empties the merged array;
\* the parsed array is put in front of the merged array
MergeStepReset(acc, text) ==
    IF ParseThrows(text)
    THEN [acc EXCEPT !.merged = <<>>, !.errors = Append(@, acc.index), !.index = @ + 1]
    ELSE [acc EXCEPT !.merged = @ \o JSONparse(text), !.index = @ + 1]
MergeStepPrepend(acc, text) ==
    IF ParseThrows(text)
    THEN [acc EXCEPT !.errors = Append(@, acc.index), !.index = @ + 1]
    ELSE [acc EXCEPT !.merged = JSONparse(text) \o @, !.index = @ + 1]

\* one iteration: try { mergedData = mergedData.concat(JSON.parse(...)) }
\* catch { console.error(...) }
MergeStep(acc, text) ==
    IF ParseThrows(text)
    THEN [acc EXCEPT !.errors = Append(@, acc.index), !.index = @ + 1]
    ELSE [acc EXCEPT !.merged = @ \o JSONparse(text), !.index = @ + 1]

RECURSIVE MergeLoop(_, _)
MergeLoop(acc, rest) ==
    IF rest = <<>> THEN acc ELSE MergeLoop(MergeStep(acc, Head(rest)), Tail(rest))

MergeFiles(fs) ==
    MergeLoop([merged |-> <<>>, errors |-> <<>>, index |-> 1], fs)

(***************************************************************************)
(* validateItemFormat                                                      *)
(***************************************************************************)
videoRequiredKeys == <<"number", "name", "code", "type", "category", "playlist">>
audioRequiredKeys == <<"number", "name", "code", "type", "audio">>

\* lines 57-60
CurrentRequiredKeys(item) ==
    IF LooseEq(item.type, "audio") THEN audioRequiredKeys ELSE videoRequiredKeys

\* faulty variant of HasKey: the typeof test is left out
HasKeyNoTypeCheck(item, key) == item[key] # Undefined
\* line 63
HasKey(item, key) == item[key] # Undefined /\ TypeOf(item[key]) = "string"

\* lines 62-68: every() calls the callback key by key and stops at the first
\* key for which it returns false; the callback pushes that key
RECURSIVE MissingKeys(_, _)
MissingKeys(item, keys) ==
    IF keys = <<>> THEN <<>>
    ELSE IF HasKey(item, Head(keys)) THEN MissingKeys(item, Tail(keys))
    ELSE <<Head(keys)>>

\* lines 55-73, one iteration
ValidateItem(invalidItems, item) ==
    LET missingKeys == MissingKeys(item, CurrentRequiredKeys(item))
        hasAllKeys == missingKeys = <<>>
    IN  IF ~hasAllKeys
        THEN Append(invalidItems, [channel |-> item.number, missing |-> missingKeys])
        ELSE invalidItems

RECURSIVE ValidateLoop(_, _)
ValidateLoop(invalidItems, rest) ==
    IF rest = <<>> THEN invalidItems
    ELSE ValidateLoop(ValidateItem(invalidItems, Head(rest)), Tail(rest))

\* reading item.type of null throws a TypeError
ValidateThrows(data) == \E i \in 1..Len(data) : data[i].json = "null"

validateItemFormat(data) ==
    LET invalidItems == ValidateLoop(<<>>, data)
    IN  [isValid |-> invalidItems = <<>>, invalidItems |-> invalidItems]

(***************************************************************************)
(* checkForDuplicateNumber                                                 *)
(***************************************************************************)
\* faulty variants of DupStep: every repeat pushes a new entry; a new entry
\* is put in front of the report
DupStepRecount(st, item) ==
    IF item.number \in st.existing
    THEN [st EXCEPT !.duplicates = Append(@, [channel |-> item.number, count |-> 2])]
    ELSE [st EXCEPT !.existing = @ \cup {item.number}]
DupStepFront(st, item) ==
    IF item.number \in st.existing
    THEN LET found == {j \in 1..Len(st.duplicates) :
                          st.duplicates[j].channel = item.number}
         IN  IF found # {}
             THEN LET j == CHOOSE x \in found : \A y \in found : x <= y
                  IN  [st EXCEPT !.duplicates[j].count = @ + 1]
             ELSE [st EXCEPT !.duplicates =
                                 <<[channel |-> item.number, count |-> 2]>> \o @]
    ELSE [st EXCEPT !.existing = @ \cup {item.number}]
\* lines 90-100, one iteration
DupStep(st, item) ==
    IF item.number \in st.existing
    THEN LET found == {j \in 1..Len(st.duplicates) :
                          st.duplicates[j].channel = item.number}
         IN  IF found # {}
             THEN LET j == CHOOSE x \in found : \A y \in found : x <= y
                  IN  [st EXCEPT !.duplicates[j].count = @ + 1]
             ELSE [st EXCEPT !.duplicates =
                                 Append(@, [channel |-> item.number, count |-> 2])]
    ELSE [st EXCEPT !.existing = @ \cup {item.number}]

RECURSIVE DupLoop(_, _)
DupLoop(st, rest) ==
    IF rest = <<>> THEN st ELSE DupLoop(DupStep(st, Head(rest)), Tail(rest))

checkForDuplicateNumber(data) ==
    LET st == DupLoop([existing |-> {}, duplicates |-> <<>>], data)
    IN  [hasDuplicate |-> Len(st.duplicates) > 0, duplicates |-> st.duplicates]

(***************************************************************************)
(* State                                                                   *)
(***************************************************************************)
\* value of validation and check before their assignment
NoResult == [isValid |-> FALSE, hasDuplicate |-> FALSE, none |-> TRUE]

Line(msg, n) == [msg |-> msg, n |-> n]

\* ../list.json as an earlier run left it
PriorFile == JSONstringify(<<Video("0")>>)

\* what a run may find in the arrays of ../lists
PipelineItems == {Video("1"), Audio("2"),
                  Item(S("3"), S("n"), S("c"), S("video"), Undefined, Undefined, Undefined)}
FileTexts ==
    {MalformedText, JSONstringify(<<NullItem>>)}
        \cup {JSONstringify(a) : a \in SeqsUpTo(PipelineItems, MaxFileLen)}

Init ==
    /\ files \in SeqsUpTo(FileTexts, MaxFiles)
    /\ readdir = "idle"
    /\ promise = "none"
    /\ mergedData = <<>>
    /\ pc = "start"
    /\ validation = NoResult
    /\ check = NoResult
    /\ outFile = PriorFile
    /\ console = <<>>

(***************************************************************************)
(* Actions                                                                 *)
(***************************************************************************)
\* line 109 up to the await: mergeData() creates the promise and asks for
\* the directory listing
Start ==
    /\ pc = "start"
    /\ pc' = "awaiting"
    /\ promise' = "pending"
    /\ readdir' = "pending"
    /\ UNCHANGED <<files, mergedData, validation, check, outFile, console>>

\* lines 15-18: the callback with err set
ReaddirErr ==
    /\ readdir = "pending"
    /\ readdir' = "failed"
    /\ console' = Append(console, Line("Error reading directory:", 0))
    /\ UNCHANGED <<files, promise, mergedData, pc, validation, check, outFile>>

\* lines 15, 20-33: the callback with the listing
ReaddirOk ==
    /\ readdir = "pending"
    /\ readdir' = "done"
    /\ LET r == MergeFiles(files)
       IN  /\ mergedData' = r.merged
           /\ console' = console \o
                  [i \in 1..Len(r.errors) |-> Line("Error parsing file", r.errors[i])]
    /\ promise' = "resolved"
    /\ UNCHANGED <<files, pc, validation, check, outFile>>

\* faulty variant of Validate: the return of line 116 is left out
ValidateSkipReturn ==
    /\ pc = "awaiting"
    /\ promise = "resolved"
    /\ ~ValidateThrows(mergedData)
    /\ validation' = validateItemFormat(mergedData)
    /\ IF ~validation'.isValid
       THEN /\ console' = Append(console, Line("Invalid items found:", 0))
            /\ pc' = "check"
       ELSE /\ console' = console
            /\ pc' = "check"
    /\ UNCHANGED <<files, readdir, promise, mergedData, check, outFile>>
\* lines 112-117
Validate ==
    /\ pc = "awaiting"
    /\ promise = "resolved"
    /\ ~ValidateThrows(mergedData)
    /\ validation' = validateItemFormat(mergedData)
    /\ IF ~validation'.isValid
       THEN /\ console' = Append(console, Line("Invalid items found:", 0))
            /\ pc' = "done"
       ELSE /\ console' = console
            /\ pc' = "check"
    /\ UNCHANGED <<files, readdir, promise, mergedData, check, outFile>>

\* line 112 throwing, lines 132-134
ValidateError ==
    /\ pc = "awaiting"
    /\ promise = "resolved"
    /\ ValidateThrows(mergedData)
    /\ console' = Append(console, Line("An error occurred:", 0))
    /\ pc' = "done"
    /\ UNCHANGED <<files, readdir, promise, mergedData, validation, check, outFile>>

\* lines 120-125
CheckDup ==
    /\ pc = "check"
    /\ check' = checkForDuplicateNumber(mergedData)
    /\ IF check'.hasDuplicate
       THEN /\ console' = Append(console, Line("Duplicates found:", 0))
            /\ pc' = "done"
       ELSE /\ console' = console
            /\ pc' = "write"
    /\ UNCHANGED <<files, readdir, promise, mergedData, validation, outFile>>

\* lines 126-131
WriteOk ==
    /\ pc = "write"
    /\ outFile' = JSONstringify(mergedData)
    /\ console' = Append(console, Line("Success: Total of n entries written to list.json",
                                       Len(mergedData)))
    /\ pc' = "done"
    /\ UNCHANGED <<files, readdir, promise, mergedData, validation, check>>

\* line 129 throwing, lines 132-134: writeFileSync opens the file for writing,
\* which empties it, and then writes; it throws when the open fails (the file
\* is as before) or when a write fails (the file holds a part of the text)
WriteFail ==
    /\ pc = "write"
    /\ \E opened \in BOOLEAN :
          outFile' = IF opened THEN MalformedText ELSE outFile
    /\ console' = Append(console, Line("An error occurred:", 0))
    /\ pc' = "done"
    /\ UNCHANGED <<files, readdir, promise, mergedData, validation, check>>

Next ==
    \/ Start
    \/ ReaddirErr
    \/ ReaddirOk
    \/ Validate
    \/ ValidateError
    \/ CheckDup
    \/ WriteOk
    \/ WriteFail

Spec == Init /\ [][Next]_vars

(***************************************************************************)
(* The shape validator on its own: the run stands at line 112 with a       *)
(* merged array drawn from ShapeItems (read from one file).                *)
(***************************************************************************)
ShapeItems ==
    {Item(number, S("n"), S("c"), type, category, playlist, audio) :
        number \in {S("1"), Undefined},
        type \in {S("video"), S("audio"), Undefined, Arr("audio")},
        category \in {S("x"), Undefined},
        playlist \in {S("p"), Undefined},
        audio \in {S("a"), Num("7")}}

ShapeInit ==
    /\ mergedData \in SeqsUpTo(ShapeItems, MaxShapeLen)
    /\ files = <<JSONstringify(mergedData)>>
    /\ readdir = "done"
    /\ promise = "resolved"
    /\ pc = "awaiting"
    /\ validation = NoResult
    /\ check = NoResult
    /\ outFile = PriorFile
    /\ console = <<>>

ShapeNext == Validate

ShapeSpec == ShapeInit /\ [][ShapeNext]_vars

(***************************************************************************)
(* The uniqueness validator on its own: the run stands at line 120 with a  *)
(* merged array of well-shaped records drawn from DupItems.                *)
(***************************************************************************)
DupItems == {Video("1"), Video("2"), Video("3"), Audio("1")}

DupInit ==
    /\ mergedData \in SeqsUpTo(DupItems, MaxDupLen)
    /\ files = <<JSONstringify(mergedData)>>
    /\ readdir = "done"
    /\ promise = "resolved"
    /\ pc = "check"
    /\ validation = validateItemFormat(mergedData)
    /\ check = NoResult
    /\ outFile = PriorFile
    /\ console = <<>>

DupNext == CheckDup

DupSpec == DupInit /\ [][DupNext]_vars

(***************************************************************************)
(* What the claims speak of, stated over the inputs and not by the code.   *)
(***************************************************************************)
\* the required fields of a record's variant: audio when type is the string
\* "audio", video otherwise
SchemaOf(item) == IF item.type = S("audio") THEN audioRequiredKeys ELSE videoRequiredKeys

\* a field is present when the key exists and its value is a string
Present(item, key) == item[key].t = "string"

\* the required fields a record lacks, in schema order
AllMissing(item) == SelectSeq(SchemaOf(item), LAMBDA k : ~Present(item, k))

IsRecord(item) == item.json = "object"
InvalidRecord(item) == AllMissing(item) # <<>>
SchemaOk(data) == \A i \in 1..Len(data) : IsRecord(data[i]) /\ ~InvalidRecord(data[i])

Occurrences(data, n) == {i \in 1..Len(data) : data[i].number = n}
NumbersUnique(data) ==
    \A i, j \in 1..Len(data) : data[i].number = data[j].number => i = j

\* the concatenation of the arrays of the given texts, in order
RECURSIVE Flatten(_)
Flatten(texts) ==
    IF texts = <<>> THEN <<>> ELSE JSONparse(Head(texts)) \o Flatten(Tail(texts))

AllParse(texts) == \A i \in 1..Len(texts) : texts[i].wellFormed
ParsedOnly(texts) == SelectSeq(texts, LAMBDA t : t.wellFormed)

Printed(msg) == \E i \in 1..Len(console) : console[i].msg = msg
Succeeded == Printed("Success: Total of n entries written to list.json")
Threw == Printed("An error occurred:")
\* the run is over without the success line
Aborted == readdir = "failed" \/ (pc = "done" /\ ~Succeeded)

(***************************************************************************)
(* Claims about the whole run (Spec)                                       *)
(***************************************************************************)
\* C1: list.json is changed only if every record of the merged array has the
\* required string fields of its variant and every number is unique, and a
\* run that ends in an abort (directory-read error, shape failure, duplicate
\* failure, exception) leaves list.json exactly as it was before the run.
C1_WriteOnlyIfValid_AbortLeavesFile ==
    /\ outFile # PriorFile => SchemaOk(mergedData) /\ NumbersUnique(mergedData)
    /\ Aborted => outFile = PriorFile

\* C2: when every file parses, every record fits its schema and all numbers
\* are unique, the finished run has written the concatenation of the input
\* arrays in listing order, records unchanged (unless the write itself threw).
C2_OutputIsConcatenation ==
    (pc = "done" /\ readdir = "done" /\ AllParse(files)
        /\ SchemaOk(Flatten(files)) /\ NumbersUnique(Flatten(files)))
    => \/ Succeeded /\ outFile.wellFormed /\ JSONparse(outFile) = Flatten(files)
       \/ ~Succeeded /\ Threw /\ check # NoResult /\ ~check.hasDuplicate

C2_Witness ==
    /\ pc = "done"
    /\ Succeeded
    /\ Len(files) = 2
    /\ AllParse(files)
    /\ Len(files[1].body) >= 1
    /\ Len(files[2].body) >= 1
    /\ JSONparse(outFile) = Flatten(files)

\* C6: the stages run in the order Loading, ShapeCheck, UniquenessCheck,
\* Write: the uniqueness validator runs only after the shape validator
\* reported no invalid item, the write only after the uniqueness validator
\* reported no duplicate, an invalid item ends the run with neither, and no
\* stage is run twice or revisited.
C6_Edges ==
    {<<"start", "awaiting">>, <<"awaiting", "check">>, <<"awaiting", "done">>,
     <<"check", "write">>, <<"check", "done">>, <<"write", "done">>}
C6_State ==
    /\ (pc = "check" \/ check # NoResult) => validation # NoResult /\ validation.isValid
    /\ (pc = "write" \/ outFile # PriorFile \/ Succeeded)
          => check # NoResult /\ ~check.hasDuplicate
    /\ (validation # NoResult /\ ~validation.isValid)
          => pc = "done" /\ check = NoResult /\ outFile = PriorFile
    /\ (check # NoResult /\ check.hasDuplicate) => pc = "done" /\ outFile = PriorFile
    /\ validation # NoResult => promise = "resolved"
C6_Step ==
    /\ pc' # pc => <<pc, pc'>> \in C6_Edges
    /\ validation # NoResult => validation' = validation
    /\ check # NoResult => check' = check
    /\ mergedData' # mergedData => readdir = "pending" /\ validation = NoResult
    /\ outFile' # outFile => pc = "write" /\ outFile = PriorFile
C6_StageOrder == []C6_State /\ [][C6_Step]_vars

C6_Witness ==
    /\ pc = "done"
    /\ validation # NoResult
    /\ ~validation.isValid
    /\ Len(mergedData) >= 2
    /\ check = NoResult

\* C7: a file that fails to parse contributes no record and does not stop
\* the loader: the merged array is the concatenation, in listing order, of
\* the files that parsed, one parse error is printed per failing file, the
\* promise resolves and the run goes on to the shape validator.
C7_ParseFailureSkipsFile ==
    readdir = "done" =>
        /\ promise = "resolved"
        /\ mergedData = Flatten(ParsedOnly(files))
        /\ Cardinality({i \in 1..Len(console) : console[i].msg = "Error parsing file"})
              = Len(files) - Len(ParsedOnly(files))
        /\ \A i \in 1..Len(files) :
              ~files[i].wellFormed <=>
                  \E j \in 1..Len(console) :
                      console[j] = Line("Error parsing file", i)
        /\ pc = "awaiting" => ENABLED (Validate \/ ValidateError)
        /\ pc = "done" => validation # NoResult \/ ValidateThrows(mergedData)

C7_Witness ==
    /\ pc = "done"
    /\ readdir = "done"
    /\ Len(files) = 2
    /\ ~files[1].wellFormed
    /\ files[2].wellFormed
    /\ Len(mergedData) >= 1
    /\ validation # NoResult

\* C8: after a directory-read error is reported the run returns cleanly to a
\* terminal state, the promise of the loader settled and the orchestrator
\* finished, with neither validator run and nothing written.
C8_DirErrorCleanReturn ==
    readdir = "failed" =>
        /\ validation = NoResult
        /\ check = NoResult
        /\ outFile = PriorFile
        /\ promise # "pending"
        /\ pc = "done" \/ ENABLED Next

(***************************************************************************)
(* Claims about the shape validator (ShapeSpec)                            *)
(***************************************************************************)
\* the records of the merged array that lack a required field, in order
InvalidRecords == SelectSeq(mergedData, InvalidRecord)

\* C3: the report entry of every invalid record lists all the required
\* fields of its variant that the record lacks, in schema order.
C3_AllMissingFieldsListed ==
    validation # NoResult =>
        /\ Len(validation.invalidItems) = Len(InvalidRecords)
        /\ \A j \in 1..Len(InvalidRecords) :
              validation.invalidItems[j].missing = AllMissing(InvalidRecords[j])

\* C4: the report has exactly one entry per record that lacks a required
\* string field of its variant, in collection order, none for a record that
\* fits its schema, and isValid is true iff the report is empty.
C4_ShapeExhaustive ==
    validation # NoResult =>
        /\ Len(validation.invalidItems) = Len(InvalidRecords)
        /\ \A j \in 1..Len(InvalidRecords) :
              /\ validation.invalidItems[j].channel = InvalidRecords[j].number
              /\ validation.invalidItems[j].missing # <<>>
              /\ Head(validation.invalidItems[j].missing)
                    = Head(AllMissing(InvalidRecords[j]))
        /\ validation.isValid <=> validation.invalidItems = <<>>

C4_Witness ==
    /\ validation # NoResult
    /\ Len(mergedData) = 2
    /\ ~InvalidRecord(mergedData[1])
    /\ mergedData[2].type = S("audio")
    /\ mergedData[2].audio = Num("7")
    /\ mergedData[2].number = S("1")
    /\ validation.invalidItems = <<[channel |-> S("1"), missing |-> <<"audio">>]>>

\* C9: a record is checked against the audio required fields iff its type is
\* the string "audio"; every other record, type absent or not a string
\* included, is checked against the video required fields.
C9_SchemaByLiteralType ==
    validation # NoResult =>
        \A i \in 1..Len(mergedData) :
            /\ CurrentRequiredKeys(mergedData[i]) = audioRequiredKeys
                  <=> mergedData[i].type = S("audio")
            /\ CurrentRequiredKeys(mergedData[i]) = videoRequiredKeys
                  <=> mergedData[i].type # S("audio")

(***************************************************************************)
(* Claims about the uniqueness validator (DupSpec)                         *)
(***************************************************************************)
NumbersOf(data) == {data[i].number : i \in 1..Len(data)}

\* C5: a number has a duplicate entry iff it occurs k >= 2 times; there is
\* exactly one entry for it and its count is k; hasDuplicate is true iff the
\* report is not empty.
C5_DuplicateCounts ==
    check # NoResult =>
        LET d == check.duplicates
        IN  /\ \A j \in 1..Len(d) :
                  /\ Cardinality(Occurrences(mergedData, d[j].channel)) >= 2
                  /\ d[j].count = Cardinality(Occurrences(mergedData, d[j].channel))
            /\ \A n \in NumbersOf(mergedData) :
                  Cardinality({j \in 1..Len(d) : d[j].channel = n})
                      = IF Cardinality(Occurrences(mergedData, n)) >= 2 THEN 1 ELSE 0
            /\ check.hasDuplicate <=> d # <<>>

C5_Witness ==
    /\ check # NoResult
    /\ Cardinality(Occurrences(mergedData, S("1"))) = 3
    /\ Cardinality(Occurrences(mergedData, S("2"))) = 1
    /\ Cardinality(Occurrences(mergedData, S("3"))) = 1
    /\ check.duplicates = <<[channel |-> S("1"), count |-> 3]>>

\* position of the second occurrence of n
SecondOccurrence(data, n) ==
    LET occ == Occurrences(data, n)
        first == CHOOSE i \in occ : \A k \in occ : i <= k
    IN  CHOOSE i \in occ \ {first} : \A k \in occ \ {first} : i <= k

\* C10: the duplicate entries are ordered by the position of the second
\* occurrence of their number; later occurrences neither move nor add one.
C10_OrderedBySecondOccurrence ==
    check # NoResult =>
        LET d == check.duplicates
        IN  \A j, k \in 1..Len(d) :
                j < k <=> SecondOccurrence(mergedData, d[j].channel)
                              < SecondOccurrence(mergedData, d[k].channel)

C10_Witness ==
    /\ check # NoResult
    /\ Len(mergedData) = 5
    /\ mergedData[1].number = S("1")
    /\ mergedData[2].number = S("2")
    /\ mergedData[3].number = S("2")
    /\ mergedData[4].number = S("1")
    /\ mergedData[5].number = S("1")
    /\ check.duplicates = <<[channel |-> S("2"), count |-> 2],
                            [channel |-> S("1"), count |-> 3]>>

====
